---- MODULE Spec2Model ----
(***************************************************************************)
(* Model of streamlit_app.py: the graduation seating form.  Every script   *)
(* run reads the whole "Tables" sheet into a local DataFrame (line 25),    *)
(* evaluates the first sidebar and then the second on that local copy and, *)
(* when the pressed button of a sidebar is reached, writes the whole local *)
(* DataFrame back (lines 114 and 244).  Runs of different browser sessions *)
(* interleave between the read and the write.                              *)
(*                                                                         *)
(* Text is modelled as a sequence of one-character strings so that the     *)
(* substring search and the f-string formatting are computed, not assumed. *)
(* Names are made of letters only, for which the regular-expression search *)
(* of Series.str.contains coincides with a plain substring search.         *)
(***************************************************************************)
EXTENDS Integers, Sequences, FiniteSets, TLC

\* Number of concurrent browser sessions.
NumSessions == 2

Sessions == 1..NumSessions

----------------------------------------------------------------------------
(* Text helpers                                                            *)

EmptyStr == <<>>

\* One NaN cell of a DataFrame (an empty sheet cell as pandas reads it).
NaN == [na |-> TRUE, str |-> EmptyStr]

Cell(text) == [na |-> FALSE, str |-> text]

\* pd.notna
notna(cell) == ~cell.na

Digit(d) == <<"0", "1", "2", "3", "4", "5", "6", "7", "8", "9">>[d + 1]

RECURSIVE IntToStr(_)
\* Decimal rendering of a non-negative integer inside an f-string.
IntToStr(n) == IF n < 10 THEN <<Digit(n)>>
               ELSE IntToStr(n \div 10) \o <<Digit(n % 10)>>

\* Python "pat in text".
Contains(text, pat) ==
    \E i \in 1..(Len(text) - Len(pat) + 1) :
        SubSeq(text, i, i + Len(pat) - 1) = pat

\* Series.str.contains(pat, na=False) on one cell.
str_contains(cell, pat) == IF cell.na THEN FALSE ELSE Contains(cell.str, pat)

IsPrefix(a, b) == Len(a) <= Len(b) /\ SubSeq(b, 1, Len(a)) = a

----------------------------------------------------------------------------
(* The "Students" sheet (read-only for the program).  The program reads    *)
(* the columns Last Name, First Name and Tickets; Access_Code is the       *)
(* roster's access code, which neither sidebar reads or asks for.          *)

student_df ==
    << [Last_Name |-> <<"L","e","e">>,     First_Name |-> <<"A","l">>,
        Tickets |-> 2,  Access_Code |-> <<"4","5","2","1",".","0">>],
       [Last_Name |-> <<"L","e","e","s">>, First_Name |-> <<"A","l">>,
        Tickets |-> 1,  Access_Code |-> <<"7","7">>],
       [Last_Name |-> <<"D","o","e">>,     First_Name |-> <<"J","o">>,
        Tickets |-> 10, Access_Code |-> <<"1","2">>] >>

StudentRows == 1..Len(student_df)

\* student_df['Last Name'].unique()
last_names == {student_df[i].Last_Name : i \in StudentRows}

\* student_df[student_df['Last Name'] == sel_last]['First Name']
filtered_firsts(sel_last) ==
    {student_df[i].First_Name :
        i \in {j \in StudentRows : student_df[j].Last_Name = sel_last}}

\* f"{sel_first} {sel_last}"
full_name(sel_first, sel_last) == sel_first \o <<" ">> \o sel_last

\* student_df[(Last Name == sel_last) & (First Name == sel_first)].iloc[0]
student_info(sel_last, sel_first) ==
    LET matches == {i \in StudentRows :
                        /\ student_df[i].Last_Name = sel_last
                        /\ student_df[i].First_Name = sel_first}
    IN  student_df[CHOOSE i \in matches : \A j \in matches : i <= j]

FullNames == {full_name(student_df[i].First_Name, student_df[i].Last_Name) :
                 i \in StudentRows}

\* Access codes as the sheet returns them: a trailing ".0" left by numeric
\* coercion is dropped before comparison.
Normalize(code) ==
    IF Len(code) >= 2 /\ SubSeq(code, Len(code) - 1, Len(code)) = <<".", "0">>
    THEN SubSeq(code, 1, Len(code) - 2)
    ELSE code

\* An empty submission never matches.
accessCodeMatches(record, candidateCode) ==
    /\ candidateCode # EmptyStr
    /\ Normalize(record.Access_Code) = Normalize(candidateCode)

----------------------------------------------------------------------------
(* The "Tables" sheet.  A sheet cell holds text; a blank cell is the empty *)
(* text.                                                                   *)

\* Guests seated by hand who are not on the roster.
ZedRoeEntry == <<"Z","e","d"," ","R","o","e"," ","(","2",")",",", " ">>

AnnPoeEntry == <<"A","n","n"," ","P","o","e"," ","(","2",")",",", " ">>

SeedTables ==
    { << [Table_ID |-> "A1", Capacity |-> 3,  Taken |-> 0, Guest_List |-> EmptyStr],
         [Table_ID |-> "A2", Capacity |-> 2,  Taken |-> 0, Guest_List |-> EmptyStr] >>,
      << [Table_ID |-> "A1", Capacity |-> 12, Taken |-> 2, Guest_List |-> ZedRoeEntry],
         [Table_ID |-> "A2", Capacity |-> 2,  Taken |-> 2, Guest_List |-> AnnPoeEntry] >> }

VARIABLES
    tables,      \* the stored "Tables" sheet
    pc,          \* per session: "idle", or "loaded" once line 25 has run
    df,          \* per session: the local DataFrame of the running script
    shown,       \* what the two sidebars displayed in the step just taken
    seed,        \* history: the sheet as it was seeded
    booked,      \* history: full names whose booking has been written
    known,       \* history, per session: the names booked before its read
                 \* that its snapshot does not contain
    lastCommit   \* history: the booking written by the step just taken

vars == <<tables, pc, df, shown, seed, booked, known, lastCommit>>

Rows == 1..Len(tables)

\* conn.read(worksheet="Tables", ttl=0): blank cells come back as NaN.
conn_read(sheet) ==
    [i \in 1..Len(sheet) |->
        [Table_ID   |-> sheet[i].Table_ID,
         Capacity   |-> sheet[i].Capacity,
         Taken      |-> sheet[i].Taken,
         Guest_List |-> IF sheet[i].Guest_List = EmptyStr
                        THEN NaN ELSE Cell(sheet[i].Guest_List)]]

\* conn.update(worksheet="Tables", data=frame): the whole sheet is replaced
\* by the frame; NaN is written as a blank cell.
conn_update(frame) ==
    [i \in 1..Len(frame) |->
        [Table_ID   |-> frame[i].Table_ID,
         Capacity   |-> frame[i].Capacity,
         Taken      |-> frame[i].Taken,
         Guest_List |-> IF frame[i].Guest_List.na
                        THEN EmptyStr ELSE frame[i].Guest_List.str]]

NoFrame == <<>>

NoCommit == [name |-> EmptyStr, tickets |-> 0, idx |-> 0, base |-> NoFrame,
             again |-> FALSE, code |-> EmptyStr, raced |-> FALSE,
             earlier |-> 0]

\* What one sidebar displays: the kind of message and the Table it names.
NoMessage == [kind |-> "none", table |-> ""]

Blank == [first |-> NoMessage, second |-> NoMessage]

Init ==
    /\ tables \in SeedTables
    /\ seed = tables
    /\ pc = [s \in Sessions |-> "idle"]
    /\ df = [s \in Sessions |-> NoFrame]
    /\ shown = Blank
    /\ booked = {}
    /\ known = [s \in Sessions |-> {}]
    /\ lastCommit = NoCommit

----------------------------------------------------------------------------
(* Booking flow on the local DataFrame.                                    *)

\* Variant: the guest list is compared for equality with the name.
already_seated_row_Exact(frame, name) ==
    {i \in 1..Len(frame) :
        notna(frame[i].Guest_List) /\ frame[i].Guest_List.str = name}

\* df[df['Guest_List'].str.contains(full_name, na=False)]
already_seated_row(frame, name) ==
    {i \in 1..Len(frame) : str_contains(frame[i].Guest_List, name)}

\* Variant: Taken is not subtracted.
Remaining_Capacity(row) == row.Capacity

\* df['Remaining'] = df['Capacity'] - df['Taken']
Remaining(row) == row.Capacity - row.Taken

\* Variant: any Table that is not sold out is offered.
valid_tables_AnySeatLeft(frame, ticket_count) ==
    {i \in 1..Len(frame) : frame[i].Capacity - frame[i].Taken > 0}

\* df[df['Remaining'] >= ticket_count]
valid_tables(frame, ticket_count) ==
    {i \in 1..Len(frame) : Remaining(frame[i]) >= ticket_count}

First(S) == CHOOSE i \in S : \A j \in S : i <= j

\* df[df['Table_ID'] == selection].index[0]
idx_of(frame, selection) ==
    First({i \in 1..Len(frame) : frame[i].Table_ID = selection})

\* str(cell) if pd.notna(cell) and cell != "nan" else ""
current_list(cell) ==
    IF notna(cell) /\ cell.str # <<"n","a","n">> THEN cell.str ELSE EmptyStr

\* Variant: the entry is written without the trailing separator.
GuestEntry_NoSeparator(name, ticket_count) ==
    name \o <<" ", "(">> \o IntToStr(ticket_count) \o <<")">>

\* f"{full_name} ({ticket_count}), "
GuestEntry(name, ticket_count) ==
    name \o <<" ", "(">> \o IntToStr(ticket_count) \o <<")", ",", " ">>

\* Variant: Taken counts bookings instead of seats.
TakenAfter_One(row, ticket_count) == row.Taken + 1

\* df.at[idx, 'Taken'] += ticket_count
TakenAfter(row, ticket_count) == row.Taken + ticket_count

\* The two df.at[idx, ...] assignments of the commit.
Booked(frame, idx, name, ticket_count) ==
    [frame EXCEPT
        ![idx].Taken = TakenAfter(frame[idx], ticket_count),
        ![idx].Guest_List =
            Cell(current_list(frame[idx].Guest_List)
                    \o GuestEntry(name, ticket_count))]

\* Script run, first part: lines 22-26.
Read(s) ==
    /\ pc[s] = "idle"
    /\ pc' = [pc EXCEPT ![s] = "loaded"]
    /\ df' = [df EXCEPT ![s] = conn_read(tables)]
    /\ known' = [known EXCEPT ![s] =
                    {n \in booked :
                        already_seated_row(conn_read(tables), n) = {}}]
    /\ shown' = Blank
    /\ lastCommit' = NoCommit
    /\ UNCHANGED <<tables, seed, booked>>

\* The selections of one sidebar: "" or a last name, then "" or one of the
\* first names offered for it.
Choices ==
    {[sel_last |-> EmptyStr, sel_first |-> EmptyStr]}
        \cup UNION {{[sel_last |-> l, sel_first |-> f] :
                        f \in {EmptyStr} \cup filtered_firsts(l)} :
                    l \in last_names}

\* Selections that name a student.
Identified == {c \in Choices : c.sel_last # EmptyStr /\ c.sel_first # EmptyStr}

\* What a sidebar displays for its selections when its button is not
\* pressed: nothing without a name, the "already assigned" warning, the
\* "no tables" error, or the table selectbox with the confirm button.
Sidebar(frame, sel) ==
    IF sel \notin Identified THEN NoMessage
    ELSE LET name         == full_name(sel.sel_first, sel.sel_last)
             ticket_count == student_info(sel.sel_last, sel.sel_first).Tickets
             seated       == already_seated_row(frame, name)
             valid        == valid_tables(frame, ticket_count)
         IN  IF seated # {}
             THEN [kind |-> "AlreadySeated",
                   table |-> frame[First(seated)].Table_ID]
             ELSE IF valid = {}
             THEN [kind |-> "NoCapacity", table |-> ""]
             ELSE [kind |-> "Offer", table |-> ""]

\* The end of every script run of session s.
RunEnds(s) ==
    /\ pc[s] = "loaded"
    /\ pc' = [pc EXCEPT ![s] = "idle"]
    /\ df' = [df EXCEPT ![s] = NoFrame]
    /\ known' = [known EXCEPT ![s] = {}]
    /\ UNCHANGED seed

\* The students whose booking, written from the same snapshot to the same
\* row, is what the sheet holds now: the write about to be made races with
\* theirs.
RacedWith(frame, idx) ==
    {i \in StudentRows :
        tables = conn_update(Booked(frame, idx,
                     full_name(student_df[i].First_Name, student_df[i].Last_Name),
                     student_df[i].Tickets))}

\* The commit of a sidebar whose button is reached and pressed: the update of
\* the chosen row of df and the conn.update of the whole sheet.
Commit(s, sel, selection) ==
    LET name         == full_name(sel.sel_first, sel.sel_last)
        ticket_count == student_info(sel.sel_last, sel.sel_first).Tickets
        idx          == idx_of(df[s], selection)
    IN  /\ tables' = conn_update(Booked(df[s], idx, name, ticket_count))
        /\ booked' = booked \cup {name}
        /\ lastCommit' = [name |-> name,
                          tickets |-> ticket_count, idx |-> idx,
                          base |-> df[s], again |-> name \in known[s],
                          code |-> EmptyStr,
                          raced |-> RacedWith(df[s], idx) # {},
                          earlier |-> IF RacedWith(df[s], idx) = {} THEN 0
                                      ELSE student_df[First(RacedWith(df[s], idx))].Tickets]

\* The Table_IDs the selectbox of a sidebar offers.
Offered(frame, sel) ==
    {frame[i].Table_ID :
        i \in valid_tables(frame,
                 student_info(sel.sel_last, sel.sel_first).Tickets)}

\* What a sidebar whose button is not pressed can display, over all its
\* selections.
Displays(frame) == {Sidebar(frame, sel) : sel \in Choices}

\* A script run in which "Confirm Seating" of the first sidebar (lines
\* 59-120) was pressed.  If the button is reached the booking is written,
\* Success names the Table and st.rerun() ends the run before the second
\* sidebar; otherwise both sidebars only display.
ConfirmSeating(s) ==
    /\ RunEnds(s)
    /\ \E sel1 \in Identified :
          IF Sidebar(df[s], sel1).kind = "Offer"
          THEN \E selection \in Offered(df[s], sel1) :
               /\ Commit(s, sel1, selection)
               /\ shown' = [first  |-> [kind |-> "Success",
                                        table |-> selection],
                            second |-> NoMessage]
          ELSE \E second \in Displays(df[s]) :
               /\ shown' = [first  |-> Sidebar(df[s], sel1),
                            second |-> second]
               /\ lastCommit' = NoCommit
               /\ UNCHANGED <<tables, booked>>

\* A script run in which "Confirm This Table" of the second sidebar (lines
\* 205-248) was pressed.  The first sidebar displays for its own selections
\* (lines 59-120), the page is rendered, then the second sidebar writes the
\* booking if its button is reached; it shows balloons and names no Table.
ConfirmThisTable(s) ==
    /\ RunEnds(s)
    /\ \E first \in Displays(df[s]), sel2 \in Identified :
          IF Sidebar(df[s], sel2).kind = "Offer"
          THEN \E selection \in Offered(df[s], sel2) :
               /\ Commit(s, sel2, selection)
               /\ shown' = [first  |-> first,
                            second |-> [kind |-> "Balloons", table |-> ""]]
          ELSE /\ shown' = [first  |-> first,
                            second |-> Sidebar(df[s], sel2)]
               /\ lastCommit' = NoCommit
               /\ UNCHANGED <<tables, booked>>

\* A script run in which no booking button was pressed: both sidebars
\* display for their selections, the page is rendered (search, map, list)
\* and nothing is written.
Render(s) ==
    /\ RunEnds(s)
    /\ \E first \in Displays(df[s]), second \in Displays(df[s]) :
          shown' = [first |-> first, second |-> second]
    /\ lastCommit' = NoCommit
    /\ UNCHANGED <<tables, booked>>

Next ==
    \E s \in Sessions :
        \/ Read(s)
        \/ ConfirmSeating(s)
        \/ ConfirmThisTable(s)
        \/ Render(s)

Spec == Init /\ [][Next]_vars

----------------------------------------------------------------------------
(* Reading a stored guest list back as entries (used by the properties     *)
(* only; the program itself never parses the text).                        *)

RECURSIVE Entries(_)
\* The entries of a guest list, each terminated by ", ".
Entries(text) ==
    IF text = EmptyStr THEN <<>>
    ELSE LET ends == {i \in 1..(Len(text) - 1) :
                          text[i] = "," /\ text[i + 1] = " "}
         IN  IF ends = {} THEN <<text>>
             ELSE <<SubSeq(text, 1, First(ends) - 1)>>
                    \o Entries(SubSeq(text, First(ends) + 2, Len(text)))

OpenParen(entry) == First({i \in 1..Len(entry) : entry[i] = "("})

\* The name of the entry "name (n)".
EntryName(entry) ==
    IF \E i \in 1..Len(entry) : entry[i] = "("
    THEN SubSeq(entry, 1, OpenParen(entry) - 2)
    ELSE entry

DigitValue(c) == CHOOSE d \in 0..9 : Digit(d) = c

RECURSIVE StrToInt(_)
StrToInt(digits) ==
    IF digits = EmptyStr THEN 0
    ELSE 10 * StrToInt(SubSeq(digits, 1, Len(digits) - 1))
            + DigitValue(digits[Len(digits)])

\* The party size of the entry "name (n)".
EntryParty(entry) ==
    StrToInt(SubSeq(entry, OpenParen(entry) + 1, Len(entry) - 1))

RECURSIVE SumParty(_)
SumParty(entries) ==
    IF entries = <<>> THEN 0
    ELSE EntryParty(Head(entries)) + SumParty(Tail(entries))

\* The tables whose guest list has an entry for the name.
TablesOf(name) ==
    {i \in Rows : \E k \in 1..Len(Entries(tables[i].Guest_List)) :
                      EntryName(Entries(tables[i].Guest_List)[k]) = name}

\* A step that writes a booking: a run ends showing Success or balloons.
IsCommit ==
    /\ \E s \in Sessions : pc[s] = "loaded" /\ pc'[s] = "idle"
    /\ shown'.first.kind = "Success" \/ shown'.second.kind = "Balloons"

\* The text "name (n)" of a booking, without any separator.
PlainEntry(name, n) == name \o <<" ", "(">> \o IntToStr(n) \o <<")">>

----------------------------------------------------------------------------
(* Properties                                                              *)

\* C1: every stored Table has Taken <= Capacity, for any interleaving of
\* booking attempts.
C1_TakenWithinCapacity ==
    \A i \in Rows : tables[i].Taken <= tables[i].Capacity

\* A booking written from a snapshot another booking had also been written
\* from has filled its Table exactly.
C1_Witness ==
    /\ lastCommit.raced
    /\ tables[lastCommit.idx].Taken = tables[lastCommit.idx].Capacity

\* C2: every student's full name has an entry in the guest list of at most
\* one Table.
C2_AtMostOneTable ==
    \A name \in FullNames : Cardinality(TablesOf(name)) <= 1

\* A seated student tried again and was refused.
C2_Witness ==
    /\ \A i \in Rows : seed[i].Guest_List = EmptyStr
    /\ shown.first.kind = "AlreadySeated"
    /\ \E name \in booked :
          /\ TablesOf(name) = {idx_of(conn_read(tables), shown.first.table)}
          /\ Cardinality(booked) >= 2

\* C3: no booking is written for a full name that had already been booked
\* when the attempt read the sheet.
C3_BookedNameNeverCommitsAgain ==
    lastCommit.idx # 0 => ~lastCommit.again

\* C4: every write leaves each Table's stored guest list a prefix of the new
\* one.
C4_GuestListAppendOnly ==
    [][\A i \in Rows :
          IsPrefix(tables[i].Guest_List, tables'[i].Guest_List)]_vars

\* C5: a commit adds the party size to the chosen Table's stored Taken and
\* leaves every other Table's stored Taken unchanged.
C5_TakenFrame ==
    [][IsCommit =>
          \A i \in Rows :
              tables'[i].Taken =
                  IF i = lastCommit'.idx
                  THEN tables[i].Taken + lastCommit'.tickets
                  ELSE tables[i].Taken]_vars

\* C6 as stated: the second of two bookings written from the same snapshot
\* to the same Table leaves Taken incremented by both party sizes.
C6_DoubleIncrement ==
    [][(IsCommit /\ lastCommit'.raced) =>
          tables'[lastCommit'.idx].Taken =
              lastCommit'.base[lastCommit'.idx].Taken
                  + lastCommit'.earlier + lastCommit'.tickets]_vars

\* C6 amended: the second of two bookings written from the same snapshot to
\* the same Table overwrites the first: the Table's stored Taken is the
\* snapshot's Taken plus the second party size only, its guest list is the
\* snapshot's list plus the second entry only, and Taken stays within
\* Capacity.
C6_LostUpdate ==
    [][(IsCommit /\ lastCommit'.raced) =>
          LET i    == lastCommit'.idx
              snap == lastCommit'.base[i]
          IN  /\ tables'[i].Taken = snap.Taken + lastCommit'.tickets
              /\ tables'[i].Taken <= tables'[i].Capacity
              /\ tables'[i].Guest_List =
                    snap.Guest_List.str
                        \o PlainEntry(lastCommit'.name, lastCommit'.tickets)
                        \o <<",", " ">>]_vars

\* Two bookings of different students were written from the same snapshot
\* to the same Table.
C6_Witness ==
    /\ lastCommit.raced
    /\ Cardinality(booked) >= 2
    /\ Cardinality(TablesOf(lastCommit.name)) = 1

\* C7: a booking is written only if the chosen Table's stored remaining, at
\* the moment of the write, is at least the party size.
C7_RoomAtCommitTime ==
    [][IsCommit =>
          tables[lastCommit'.idx].Capacity - tables[lastCommit'.idx].Taken
              >= lastCommit'.tickets]_vars

\* C8 as stated: a commit makes the guest list "N (p)" when it was empty and
\* otherwise joins "N (p)" to it with a comma separator.
C8_CommaJoined ==
    [][IsCommit =>
          LET i   == lastCommit'.idx
              old == lastCommit'.base[i].Guest_List.str
              new == PlainEntry(lastCommit'.name, lastCommit'.tickets)
          IN  tables'[i].Guest_List =
                  IF old = EmptyStr THEN new ELSE old \o <<",", " ">> \o new]_vars

\* C8 amended: a commit makes the guest list the text the attempt read
\* (empty when the cell was blank) followed by "N (p), ": every entry is
\* terminated by comma and space.
C8_CommaTerminated ==
    [][IsCommit =>
          LET i   == lastCommit'.idx
              old == lastCommit'.base[i].Guest_List.str
          IN  tables'[i].Guest_List =
                  old \o PlainEntry(lastCommit'.name, lastCommit'.tickets)
                      \o <<",", " ">>]_vars

\* A booking was appended to a guest list that already had an entry.
C8_Witness ==
    /\ lastCommit.idx # 0
    /\ ~lastCommit.base[lastCommit.idx].Guest_List.na
    /\ Len(Entries(tables[lastCommit.idx].Guest_List)) >= 2

\* C9: a booking is written only if a code matching the student's access
\* code was submitted in the attempt.
C9_CommitOnlyWithMatchingCode ==
    lastCommit.idx # 0 =>
        \E i \in StudentRows :
            /\ full_name(student_df[i].First_Name, student_df[i].Last_Name)
                   = lastCommit.name
            /\ accessCodeMatches(student_df[i], lastCommit.code)

\* C10: for every Table, stored Taken minus seeded Taken is the sum of the
\* party sizes of the guest-list entries added since the sheet was seeded.
C10_TakenMatchesGuestList ==
    \A i \in Rows :
        /\ IsPrefix(seed[i].Guest_List, tables[i].Guest_List)
        /\ tables[i].Taken - seed[i].Taken =
              SumParty(Entries(SubSeq(tables[i].Guest_List,
                                      Len(seed[i].Guest_List) + 1,
                                      Len(tables[i].Guest_List))))

\* A booking with a two-digit party size was appended to a seeded guest
\* list and filled the Table.
C10_Witness ==
    \E i \in Rows :
        /\ seed[i].Guest_List # EmptyStr
        /\ tables[i].Taken - seed[i].Taken >= 10
        /\ tables[i].Taken = tables[i].Capacity
====
